---- MODULE Spec2Model ----
(***************************************************************************)
(* A model of the ingestion service: the file-based JobManager (JobStore), *)
(* the background worker of main.py (Orchestrator), the Gemini key/model   *)
(* manager (CredentialPool) and the Gemini API worker threads              *)
(* (CallDispatcher).                                                       *)
(*                                                                         *)
(* Every filesystem call of job_manager.py is one atomic step: each is     *)
(* awaited through run_in_executor, so the steps of concurrent coroutines  *)
(* (and of other processes on the same directory tree) interleave freely.  *)
(***************************************************************************)
EXTENDS Integers, Sequences, FiniteSets, TLC

\* ------------------------------------------------------------------ bounds
\* claim / update / requeue calls a test harness starts in one run
MaxOps == 4
\* process restarts of an Orchestrator in one run
MaxRestarts == 1
\* keys of the CSV, models per task of the YAML, seconds of key cooldown
MaxKeys == 2
MaxModels == 2
MaxCooldown == 2
\* how far the clock runs, and up to where the history counts a run of calls
MaxTime == 2
MaxRun == 5
\* call jobs submitted to the Gemini workers in one run
MaxJobs == 3

\* ------------------------------------------------------------- JobStore data
Jobs == {"j1", "j2"}
Payloads == {"p1", "p2"}
\* t1 and t2 call claim / update / requeue (two Orchestrator instances, or two
\* harness tasks); api is a request handler calling submit_job
Tasks == {"t1", "t2", "api"}
Orchs == {"t1", "t2"}

\* JobStatus: the four state directories, in the order of JobManager.paths
PENDING == "pending"
PROCESSING == "processing"
COMPLETED == "completed"
FAILED == "failed"
DirOrder == <<PENDING, PROCESSING, COMPLETED, FAILED>>
Dirs == {PENDING, PROCESSING, COMPLETED, FAILED}

\* A file name is <<job, extension>>: j.json, j.status.json, j.retry.json.
Exts == {"json", "status.json", "retry.json"}
Names == Jobs \X Exts
\* A job id as the code sees it is <<job, suffix>>: "j" or "j.retry" (the stem
\* of j.retry.json, which pending_path.glob("*.json") also matches).
Ids == Jobs \X {"", "retry"}
NoId == <<"", "">>
NoName == <<"", "">>
NoneRc == -1

\* _get_job_paths: the data (0), status (1) and retry (2) file of a job id.
\* For the id "j.retry" the data file is j.retry.json; its status and retry
\* files (j.retry.status.json, j.retry.retry.json) are names nothing creates.
GetJobPaths(id, i) ==
    IF id[2] = ""
    THEN <<id[1], <<"json", "status.json", "retry.json">>[i + 1]>>
    ELSE <<id[1], <<"retry.json", "retry.status.json", "retry.retry.json">>[i + 1]>>

NoFile == [k |-> "absent"]
DataFile(p) == [k |-> "data", payload |-> p]
StatusFile(s, m, n) == [k |-> "status", status |-> s, message |-> m, retry_count |-> n]
RetryFile(n, m) == [k |-> "retry", retry_count |-> n, last_failure_reason |-> m]

VARIABLES
    fs,            \* fs[dir][name]: the content of a file, or NoFile
    pendingCtime,  \* the files of pending/, oldest os.path.getctime first
    pc,            \* pc[t]: where coroutine t stands inside a JobManager call
    loc,           \* loc[t]: the locals of that call
    ret,           \* ret[t]: what the last call returned (or raised)
    orch,          \* orch[t]: where main.py's worker loop stands
    hold,          \* hold[t]: the triple a harness task got from get_next_job
    ops,           \* harness calls started
    restarts,      \* process restarts so far
    hist           \* history: what was submitted, claimed, requeued

storeVars == <<fs, pendingCtime, pc, loc, ret, orch, hold, ops, restarts, hist>>

\* ComprehensiveManager (CredentialPool)
VARIABLES
    apiKeys,       \* number of keys of the CSV; key i is the i-th row
    taskModels,    \* taskModels[c]: number of models the YAML lists for task c
    apiKeyCooldownSeconds,
    now,           \* time.time()
    clientCycle,   \* clientCycle[c]: pairs the shared cycle(clients) of c has given out, mod its length
    cooldowns,     \* cooldowns[k]: the time until which key k is on cooldown
    lastNext,      \* history: what the last such call returned
    chain          \* history: the last normal returns per task while no key was on cooldown

poolVars == <<apiKeys, taskModels, apiKeyCooldownSeconds, now, clientCycle, cooldowns,
              lastNext, chain>>

\* GeminiAPIWorker threads (CallDispatcher) and their queues
VARIABLES
    workQueue,     \* workQueue[l]: the queue.Queue of lane l
    wk,            \* wk[l]: where the worker thread of lane l stands in run()
    job,           \* job[l]: the item the worker took from its queue
    clientGenerator, \* clientGenerator[l]: state of the generator made at line 105
    future,        \* future[i]: the result handle of call job i
    closed,        \* closed[l]: close() was called on lane l
    taskDone,      \* call jobs the worker called task_done() for
    transport,     \* the HTTP statuses the external service answers a job's calls with
    attempt,       \* attempt[l]: the loop variable of line 124
    client,        \* client[l]: the (api_key, model_name) line 125 bound
    calls,         \* calls[i]: external calls issued for call job i
    caught,        \* caught[i]: the exception lines 169-170 caught while job i was handled
    access,        \* history: the last access of a worker thread to self.cooldowns
    applied        \* the last application of a function of the code: name, argument, result

callVars == <<transport, attempt, client, calls, caught, access, applied>>
dispVars == <<workQueue, wk, job, clientGenerator, future, closed, taskDone, callVars>>
vars == <<storeVars, poolVars, dispVars>>
\* a step of the job store or of its callers leaves the Gemini side alone
OutsideStore == UNCHANGED <<poolVars, dispVars>>

\* ------------------------------------------------------------ file system
Exists(d, n) == n \in Names /\ fs[d][n] # NoFile

Without(seq, n) == SelectSeq(seq, LAMBDA x : x # n)

\* Path.write_text: creates or replaces; the file's ctime becomes the newest
FsWrite(d, n, c) == [fs EXCEPT ![d][n] = c]
CtimeAfterWrite(d, n) ==
    IF d = PENDING THEN Append(Without(pendingCtime, n), n) ELSE pendingCtime

\* Path.rename (source exists): atomic; replaces the target; renaming a file
\* onto itself changes nothing; the moved file's ctime becomes the newest
FsRename(d1, d2, n) ==
    IF d1 = d2 THEN fs ELSE [fs EXCEPT ![d1][n] = NoFile, ![d2][n] = fs[d1][n]]
CtimeAfterRename(d1, d2, n) ==
    IF d1 = d2 THEN pendingCtime
    ELSE IF d2 = PENDING THEN Append(Without(pendingCtime, n), n)
    ELSE IF d1 = PENDING THEN Without(pendingCtime, n)
    ELSE pendingCtime

\* ------------------------------------------------------------ coroutines
LocInit ==
    [op |-> "", id |-> NoId, data |-> "", jobFiles |-> {}, target |-> NoName,
     rc |-> 0, d |-> 0, info |-> NoFile, cur |-> "", new |-> "", msg |-> "",
     arg |-> NoneRc, i |-> 0, kgs |-> "", kujs |-> "", pre |-> {}, preRq |-> NoId]

RetVal(kind, id, data, rc, log) ==
    [kind |-> kind, id |-> id, data |-> data, rc |-> rc, log |-> log]
RetInit == RetVal("", NoId, NoFile, 0, NoId)

\* the call of task t ends: with None, with a value, or with an exception
Return(t, r) ==
    /\ pc' = [pc EXCEPT ![t] = "done"]
    /\ ret' = [ret EXCEPT ![t] = r]
    /\ loc' = [loc EXCEPT ![t] = [LocInit EXCEPT !.op = loc[t].op, !.id = loc[t].id,
                                              !.rc = loc[t].rc, !.msg = loc[t].msg,
                                              !.new = loc[t].new,
                                              !.pre = loc[t].pre,
                                              !.preRq = loc[t].preRq]]

ReturnNone(t) == Return(t, RetVal("None", NoId, NoFile, 0, NoId))
Raise(t, e) == Return(t, RetVal(e, NoId, NoFile, 0, NoId))

Goto(t, label, l) ==
    /\ pc' = [pc EXCEPT ![t] = label]
    /\ loc' = [loc EXCEPT ![t] = l]
    /\ ret' = ret


\* a step of a JobManager call leaves its caller's state alone
CallerFrame == UNCHANGED <<orch, hold, ops, restarts, hist>> /\ OutsideStore
SameFiles == UNCHANGED <<fs, pendingCtime>>

\* ------------------------------------------------- JobManager.submit_job
\* line 79: write the payload file into pending/
SjData(t) ==
    /\ pc[t] = "sj_data"
    /\ fs' = FsWrite(PENDING, GetJobPaths(loc[t].id, 0), DataFile(loc[t].data))
    /\ pendingCtime' = CtimeAfterWrite(PENDING, GetJobPaths(loc[t].id, 0))
    /\ Goto(t, "sj_status", loc[t])
    /\ CallerFrame

\* line 80: write the status file into pending/, retry_count 0
SjStatus(t) ==
    /\ pc[t] = "sj_status"
    /\ fs' = FsWrite(PENDING, GetJobPaths(loc[t].id, 1), StatusFile(PENDING, "queued", 0))
    /\ pendingCtime' = CtimeAfterWrite(PENDING, GetJobPaths(loc[t].id, 1))
    /\ ReturnNone(t)
    /\ CallerFrame

\* --------------------------------------------- JobManager.update_job_status
\* update_job_status returns to its caller: get_next_job goes on to read the
\* payload (line 156); requeue_job_for_retry and a direct caller are done
UjsReturn(t) ==
    IF loc[t].kujs = "gnj" THEN Goto(t, "gnj_readdata", loc[t]) ELSE ReturnNone(t)

\* --------------------------------------------- JobManager.get_job_status
\* get_job_status returns info (NoFile for None) to the code that called it
GsReturn(t, info) ==
    CASE loc[t].kgs = "ujs" ->
            \* update_job_status lines 182-187
            IF info.k = "absent" THEN UjsReturn(t)
            ELSE IF info.status # loc[t].new
                 THEN Goto(t, "ujs_exists", [loc[t] EXCEPT !.info = info, !.cur = info.status, !.i = 0])
                 ELSE Goto(t, "ujs_write", [loc[t] EXCEPT !.info = info, !.cur = info.status])
      [] loc[t].kgs = "rq" ->
            \* requeue_job_for_retry lines 161-169
            IF info.k = "absent" THEN ReturnNone(t)
            ELSE Goto(t, "rq_exists", [loc[t] EXCEPT !.info = info, !.cur = info.status, !.i = 0])
      [] OTHER ->
            IF info.k = "absent" THEN ReturnNone(t)
            ELSE Return(t, RetVal("status", loc[t].id, info, 0, NoId))

\* lines 87-89: status_path.exists() in the next state directory
GsExists(t) ==
    /\ pc[t] = "gs_exists"
    /\ SameFiles /\ CallerFrame
    /\ IF Exists(DirOrder[loc[t].d], GetJobPaths(loc[t].id, 1))
       THEN Goto(t, "gs_read", loc[t])
       ELSE IF loc[t].d < Len(DirOrder)
            THEN Goto(t, "gs_exists", [loc[t] EXCEPT !.d = loc[t].d + 1])
            ELSE GsReturn(t, NoFile)

\* lines 91-92: read_text of the status file that was seen
GsRead(t) ==
    /\ pc[t] = "gs_read"
    /\ SameFiles /\ CallerFrame
    /\ IF Exists(DirOrder[loc[t].d], GetJobPaths(loc[t].id, 1))
       THEN GsReturn(t, fs[DirOrder[loc[t].d]][GetJobPaths(loc[t].id, 1)])
       ELSE Raise(t, "FileNotFoundError")

\* lines 190-191: paths[current_status][i].exists()
UjsExists(t) ==
    /\ pc[t] = "ujs_exists"
    /\ SameFiles /\ CallerFrame
    /\ IF Exists(loc[t].cur, GetJobPaths(loc[t].id, loc[t].i))
       THEN Goto(t, "ujs_mv", loc[t])
       ELSE IF loc[t].i < 2
            THEN Goto(t, "ujs_exists", [loc[t] EXCEPT !.i = loc[t].i + 1])
            ELSE Goto(t, "ujs_write", loc[t])

\* line 192: rename from the current_status directory to new_status
UjsMv(t) ==
    /\ pc[t] = "ujs_mv"
    /\ CallerFrame
    /\ LET n == GetJobPaths(loc[t].id, loc[t].i) IN
       IF Exists(loc[t].cur, n)
       THEN /\ fs' = FsRename(loc[t].cur, loc[t].new, n)
            /\ pendingCtime' = CtimeAfterRename(loc[t].cur, loc[t].new, n)
            /\ IF loc[t].i < 2
               THEN Goto(t, "ujs_exists", [loc[t] EXCEPT !.i = loc[t].i + 1])
               ELSE Goto(t, "ujs_write", loc[t])
       ELSE SameFiles /\ Raise(t, "FileNotFoundError")

\* update_job_status forgetting to set "status" in the record it rewrites
UpdatedStatusKeepsOld(info, new, msg, arg) ==
    StatusFile(info.status,
               IF msg # "" THEN msg ELSE info.message,
               IF arg # NoneRc THEN arg ELSE info.retry_count)

\* lines 195-200: the status record update_job_status writes
UpdatedStatus(info, new, msg, arg) ==
    StatusFile(new,
               IF msg # "" THEN msg ELSE info.message,
               IF arg # NoneRc THEN arg ELSE info.retry_count)

\* update_job_status writing the status file of a job whose status does not
\* change into pending/ instead of the directory it is in
UjsWriteSameToPending(t) ==
    /\ pc[t] = "ujs_write"
    /\ CallerFrame
    /\ LET d == IF loc[t].cur = loc[t].new THEN PENDING ELSE loc[t].new IN
       /\ fs' = FsWrite(d, GetJobPaths(loc[t].id, 1),
                        UpdatedStatus(loc[t].info, loc[t].new, loc[t].msg, loc[t].arg))
       /\ pendingCtime' = CtimeAfterWrite(d, GetJobPaths(loc[t].id, 1))
    /\ UjsReturn(t)

\* lines 194-208: write the status file into the new_status directory
UjsWrite(t) ==
    /\ pc[t] = "ujs_write"
    /\ CallerFrame
    /\ fs' = FsWrite(loc[t].new, GetJobPaths(loc[t].id, 1),
                     UpdatedStatus(loc[t].info, loc[t].new, loc[t].msg, loc[t].arg))
    /\ pendingCtime' = CtimeAfterWrite(loc[t].new, GetJobPaths(loc[t].id, 1))
    /\ UjsReturn(t)

\* ---------------------------------------- JobManager.requeue_job_for_retry
\* lines 169-170: paths[current_status][i].exists()
RqExists(t) ==
    /\ pc[t] = "rq_exists"
    /\ SameFiles /\ CallerFrame
    /\ IF Exists(loc[t].cur, GetJobPaths(loc[t].id, loc[t].i))
       THEN Goto(t, "rq_mv", loc[t])
       ELSE IF loc[t].i < 2
            THEN Goto(t, "rq_exists", [loc[t] EXCEPT !.i = loc[t].i + 1])
            ELSE Goto(t, "rq_write", loc[t])

\* line 171: rename from the current_status directory to pending/
RqMv(t) ==
    /\ pc[t] = "rq_mv"
    /\ CallerFrame
    /\ LET n == GetJobPaths(loc[t].id, loc[t].i) IN
       IF Exists(loc[t].cur, n)
       THEN /\ fs' = FsRename(loc[t].cur, PENDING, n)
            /\ pendingCtime' = CtimeAfterRename(loc[t].cur, PENDING, n)
            /\ IF loc[t].i < 2
               THEN Goto(t, "rq_exists", [loc[t] EXCEPT !.i = loc[t].i + 1])
               ELSE Goto(t, "rq_write", loc[t])
       ELSE SameFiles /\ Raise(t, "FileNotFoundError")

\* lines 173-176: write pending/{job_id}.retry.json, then call
\* update_job_status(job_id, PENDING, message, new_retry_count)
RqWrite(t) ==
    /\ pc[t] = "rq_write"
    /\ CallerFrame
    /\ fs' = FsWrite(PENDING, GetJobPaths(loc[t].id, 2), RetryFile(loc[t].rc, loc[t].msg))
    /\ pendingCtime' = CtimeAfterWrite(PENDING, GetJobPaths(loc[t].id, 2))
    /\ Goto(t, "gs_exists",
            [loc[t] EXCEPT !.new = PENDING, !.arg = loc[t].rc, !.kgs = "ujs",
                           !.kujs = "rq", !.d = 1, !.info = NoFile, !.cur = "", !.i = 0])


\* ------------------------------------------------- JobManager.get_next_job
\* the id of a job that is in completed/ taken for the file, when there is one
StemOfCompleted(n) ==
    IF \E j \in Jobs : fs[COMPLETED][<<j, "json">>].k = "data"
    THEN <<CHOOSE j \in Jobs : fs[COMPLETED][<<j, "json">>].k = "data",
           IF n[2] = "json" THEN "" ELSE "retry">>
    ELSE <<n[1], IF n[2] = "json" THEN "" ELSE "retry">>

\* Path.stem of a file of job_files
Stem(n) == <<n[1], IF n[2] = "json" THEN "" ELSE "retry">>

\* line 122: pending/*.json without the names that contain ".status"
GlobJobFiles == {n \in Names : fs[PENDING][n] # NoFile /\ n[2] # "status.json"}

\* line 126: the files p of job_files with no pending/{p.stem}.retry.json
NonRetried(files) == {p \in files : ~Exists(PENDING, GetJobPaths(Stem(p), 2))}

CtimeRank(n) == CHOOSE k \in 1..Len(pendingCtime) : pendingCtime[k] = n
\* min(files, key=os.path.getctime)
Oldest(files) == CHOOSE p \in files : \A q \in files : CtimeRank(p) <= CtimeRank(q)

\* lines 121-124
GnjGlob(t) ==
    /\ pc[t] = "gnj_glob"
    /\ SameFiles /\ CallerFrame
    /\ IF GlobJobFiles = {}
       THEN ReturnNone(t)
       ELSE Goto(t, "gnj_select", [loc[t] EXCEPT !.jobFiles = GlobJobFiles])

\* lines 126-133: choose the target (getctime raises for a file that has gone
\* since the glob), take its stem as job id, look for its retry file
GnjSelect(t) ==
    /\ pc[t] = "gnj_select"
    /\ SameFiles /\ CallerFrame
    /\ LET files == loc[t].jobFiles
           cand == IF NonRetried(files) # {} THEN NonRetried(files) ELSE files
       IN IF \E p \in cand : ~Exists(PENDING, p)
          THEN Raise(t, "FileNotFoundError")
          ELSE LET target == Oldest(cand)
                   l == [loc[t] EXCEPT !.target = target, !.id = Stem(target), !.rc = 0]
               IN IF Exists(PENDING, GetJobPaths(Stem(target), 2))
                  THEN Goto(t, "gnj_readretry", l)
                  ELSE Goto(t, "gnj_mvdata", l)

\* lines 134-138: retry_count from the retry file; 0 when it cannot be read.
\* Reached only when another process writes pending/{job_id}.retry.json
\* between the listing of line 122 and the check of line 133: a retry file
\* that is listed is itself a job file without retry file, and is chosen first.
GnjReadRetry(t) ==
    /\ pc[t] = "gnj_readretry"
    /\ SameFiles /\ CallerFrame
    /\ LET n == GetJobPaths(loc[t].id, 2) IN
       Goto(t, "gnj_mvdata",
            [loc[t] EXCEPT !.rc = IF Exists(PENDING, n) THEN fs[PENDING][n].retry_count ELSE 0])

\* get_next_job going on after a rename whose source had gone
GnjMvDataUnchecked(t) ==
    /\ pc[t] = "gnj_mvdata"
    /\ CallerFrame
    /\ IF Exists(PENDING, loc[t].target)
       THEN /\ fs' = FsRename(PENDING, PROCESSING, loc[t].target)
            /\ pendingCtime' = CtimeAfterRename(PENDING, PROCESSING, loc[t].target)
       ELSE SameFiles
    /\ Goto(t, "gnj_meta_exists", [loc[t] EXCEPT !.i = 1])

\* line 142 (and 151-153): rename the target into processing/; when the file
\* has gone, FileNotFoundError is caught and the call returns None
GnjMvData(t) ==
    /\ pc[t] = "gnj_mvdata"
    /\ CallerFrame
    /\ IF Exists(PENDING, loc[t].target)
       THEN /\ fs' = FsRename(PENDING, PROCESSING, loc[t].target)
            /\ pendingCtime' = CtimeAfterRename(PENDING, PROCESSING, loc[t].target)
            /\ Goto(t, "gnj_meta_exists", [loc[t] EXCEPT !.i = 1])
       ELSE /\ SameFiles
            /\ Return(t, RetVal("None", NoId, NoFile, 0, loc[t].id))

\* line 155: after the metadata loop, update_job_status(job_id, PROCESSING,
\* "Worker processing (Attempt #n)", retry_count)
GnjAfterMeta(t) ==
    IF loc[t].i < 2
    THEN Goto(t, "gnj_meta_exists", [loc[t] EXCEPT !.i = loc[t].i + 1])
    ELSE Goto(t, "gs_exists",
              [loc[t] EXCEPT !.new = PROCESSING, !.msg = "attempt", !.arg = loc[t].rc,
                             !.kgs = "ujs", !.kujs = "gnj", !.d = 1, !.i = 0])

\* lines 144-149: src_path.exists() for the status file (i = 1), the retry file (i = 2)
GnjMetaExists(t) ==
    /\ pc[t] = "gnj_meta_exists"
    /\ SameFiles /\ CallerFrame
    /\ IF Exists(PENDING, GetJobPaths(loc[t].id, loc[t].i))
       THEN Goto(t, "gnj_meta_mv", loc[t])
       ELSE GnjAfterMeta(t)

\* line 150 (and 151-153): rename the metadata file into processing/
GnjMetaMv(t) ==
    /\ pc[t] = "gnj_meta_mv"
    /\ CallerFrame
    /\ LET n == GetJobPaths(loc[t].id, loc[t].i) IN
       IF Exists(PENDING, n)
       THEN /\ fs' = FsRename(PENDING, PROCESSING, n)
            /\ pendingCtime' = CtimeAfterRename(PENDING, PROCESSING, n)
            /\ GnjAfterMeta(t)
       ELSE /\ SameFiles
            /\ Return(t, RetVal("None", NoId, NoFile, 0, loc[t].id))

\* lines 156-157: read the payload from processing/, return the triple
GnjReadData(t) ==
    /\ pc[t] = "gnj_readdata"
    /\ SameFiles /\ CallerFrame
    /\ LET n == GetJobPaths(loc[t].id, 0) IN
       IF Exists(PROCESSING, n)
       THEN Return(t, RetVal("triple", loc[t].id, fs[PROCESSING][n], loc[t].rc, NoId))
       ELSE Raise(t, "FileNotFoundError")

\* one step of whichever JobManager call task t is in
JobManagerStep(t) ==
    \/ SjData(t) \/ SjStatus(t)
    \/ GsExists(t) \/ GsRead(t)
    \/ UjsExists(t) \/ UjsMv(t) \/ UjsWrite(t)
    \/ GnjGlob(t) \/ GnjSelect(t) \/ GnjMvData(t)
    \/ GnjMetaExists(t) \/ GnjMetaMv(t) \/ GnjReadData(t)

\* one step of requeue_job_for_retry (get_job_status and update_job_status,
\* which it calls, step in JobManagerStep)
RequeueStep(t) == RqExists(t) \/ RqMv(t) \/ RqWrite(t)

\* get_job_status (lines 85-93) run without interruption on the files as they are
StatusNow(id) ==
    LET ds == {k \in 1..Len(DirOrder) : Exists(DirOrder[k], GetJobPaths(id, 1))}
    IN IF ds = {} THEN NoFile
       ELSE fs[DirOrder[CHOOSE k \in ds : \A m \in ds : k <= m]][GetJobPaths(id, 1)]


\* ---------------------------------------------------------------- callers
NoHold == [id |-> NoId, rc |-> 0]
Quiet(t) == \A u \in Tasks \ {t} : pc[u] = "idle"
PendingJobs == {j \in Jobs : \E e \in Exts : fs[PENDING][<<j, e>>] # NoFile}
DataDirs(j) == {d \in Dirs : Exists(d, <<j, "json">>)}
StatusDirs(j) == {d \in Dirs : Exists(d, <<j, "status.json">>)}
\* the jobs whose submit_job has returned and that were never requeued
ClaimPre == {j \in hist.submitDone : hist.rqCalls[j] = 0}
\* history: a claim that began after submit_job(j) had returned gave out j
NoteClaim(h, t) ==
    IF ret[t].id[2] = "" /\ ret[t].id[1] \in loc[t].pre
    THEN [h EXCEPT !.clean = @ \cup {ret[t].id[1]}]
    ELSE h

Consume(t) ==
    /\ pc' = [pc EXCEPT ![t] = "idle"]
    /\ loc' = [loc EXCEPT ![t] = LocInit]
    /\ ret' = [ret EXCEPT ![t] = RetInit]

\* api/episodes.py submit_episode: submit_job(job_id, payload) for a fresh id
ApiSubmit(j, p) ==
    /\ pc["api"] = "idle"
    /\ j \notin hist.submitted
    /\ pc' = [pc EXCEPT !["api"] = "sj_data"]
    /\ loc' = [loc EXCEPT !["api"] = [LocInit EXCEPT !.op = "submit", !.id = <<j, "">>, !.data = p]]
    /\ hist' = [hist EXCEPT !.submitted = @ \cup {j}, !.payload[j] = p]
    /\ UNCHANGED <<fs, pendingCtime, ret, orch, hold, ops, restarts>>
    /\ OutsideStore

\* submit_job(job_id, payload) called with the id of a job that is in the store
Present(j) == DataDirs(j) # {} \/ StatusDirs(j) # {}
SubmitAgain(j, p) ==
    /\ pc["api"] = "idle" /\ ops < MaxOps
    /\ j \in hist.submitDone /\ Present(j)
    /\ pc' = [pc EXCEPT !["api"] = "sj_data"]
    /\ loc' = [loc EXCEPT !["api"] = [LocInit EXCEPT !.op = "resubmit", !.id = <<j, "">>, !.data = p]]
    /\ ops' = ops + 1
    /\ UNCHANGED <<fs, pendingCtime, ret, orch, hold, restarts, hist>>
    /\ OutsideStore

ApiReturn ==
    /\ pc["api"] = "done"
    /\ Consume("api")
    /\ hist' = [hist EXCEPT !.submitDone = @ \cup {loc["api"].id[1]}]
    /\ UNCHANGED <<fs, pendingCtime, orch, hold, ops, restarts>>
    /\ OutsideStore

\* api/episodes.py get_job_status (lines 69-98): a status request for a job
\* whose submit_job has returned, served by task t
ApiStatus(t, j) ==
    /\ pc[t] = "idle" /\ orch[t] = "off"
    /\ j \in hist.submitDone
    /\ pc' = [pc EXCEPT ![t] = "gs_exists"]
    /\ loc' = [loc EXCEPT ![t] = [LocInit EXCEPT !.op = "status", !.id = <<j, "">>, !.d = 1]]
    /\ UNCHANGED <<fs, pendingCtime, ret, orch, hold, ops, restarts, hist>>
    /\ OutsideStore

\* lines 92-98: the request is answered (404 for None)
StatusReturn(t) ==
    /\ pc[t] = "done" /\ loc[t].op = "status"
    /\ Consume(t)
    /\ UNCHANGED <<fs, pendingCtime, orch, hold, ops, restarts, hist>>
    /\ OutsideStore

\* A harness task calls get_next_job when it holds no job.
HarnessClaim(t) ==
    /\ t \in Orchs /\ orch[t] = "off"
    /\ pc[t] = "idle" /\ hold[t] = NoHold /\ ops < MaxOps
    /\ pc' = [pc EXCEPT ![t] = "gnj_glob"]
    /\ loc' = [loc EXCEPT ![t] =
          [LocInit EXCEPT
             !.op = "claim",
             !.pre = ClaimPre,
             !.preRq = IF Quiet(t) /\ \E j \in Jobs : PendingJobs = {j} /\ hist.rqDone[j] # NoneRc
                       THEN <<CHOOSE j \in Jobs : PendingJobs = {j}, "">>
                       ELSE NoId]]
    /\ ops' = ops + 1
    /\ UNCHANGED <<fs, pendingCtime, ret, orch, hold, restarts, hist>>
    /\ OutsideStore

\* ... update_job_status(job_id, COMPLETED | FAILED, message) on the job it holds
HarnessUpdate(t, s) ==
    /\ t \in Orchs /\ orch[t] = "off"
    /\ pc[t] = "idle" /\ hold[t] # NoHold /\ ops < MaxOps
    /\ s \in {COMPLETED, FAILED}
    /\ pc' = [pc EXCEPT ![t] = "gs_exists"]
    /\ loc' = [loc EXCEPT ![t] =
          [LocInit EXCEPT !.op = "update", !.id = hold[t].id, !.new = s,
                          !.msg = IF s = COMPLETED THEN "ingested" ELSE "error",
                          !.arg = NoneRc, !.kgs = "ujs", !.kujs = "top", !.d = 1]]
    /\ hold' = [hold EXCEPT ![t] = NoHold]
    /\ ops' = ops + 1
    /\ UNCHANGED <<fs, pendingCtime, ret, orch, restarts, hist>>
    /\ OutsideStore

\* job j is in state s: its payload and status file are in the directory of s
\* and nowhere else, and the status record says s
InState(j, s) ==
    /\ DataDirs(j) = {s} /\ StatusDirs(j) = {s}
    /\ fs[s][<<j, "status.json">>].status = s

\* ... update_job_status(j, s, message) for a job that is in state s already
HarnessUpdateSame(t, j, s) ==
    /\ t \in Orchs /\ orch[t] = "off"
    /\ pc[t] = "idle" /\ ops < MaxOps
    /\ InState(j, s)
    /\ pc' = [pc EXCEPT ![t] = "gs_exists"]
    /\ loc' = [loc EXCEPT ![t] =
          [LocInit EXCEPT !.op = "same", !.id = <<j, "">>, !.new = s, !.msg = "again",
                          !.arg = NoneRc, !.kgs = "ujs", !.kujs = "top", !.d = 1]]
    /\ ops' = ops + 1
    /\ UNCHANGED <<fs, pendingCtime, ret, orch, hold, restarts, hist>>
    /\ OutsideStore

\* ... requeue_job_for_retry(job_id, retry_count + 1, message) on the job it holds
HarnessRequeue(t) ==
    /\ t \in Orchs /\ orch[t] = "off"
    /\ pc[t] = "idle" /\ hold[t] # NoHold /\ ops < MaxOps
    /\ pc' = [pc EXCEPT ![t] = "gs_exists"]
    /\ loc' = [loc EXCEPT ![t] =
          [LocInit EXCEPT !.op = "requeue", !.id = hold[t].id, !.rc = hold[t].rc + 1,
                          !.msg = "schema mismatch", !.kgs = "rq", !.d = 1]]
    /\ hold' = [hold EXCEPT ![t] = NoHold]
    /\ ops' = ops + 1
    /\ hist' = IF hold[t].id[2] = ""
               THEN [hist EXCEPT !.rqCalls[hold[t].id[1]] = @ + 1]
               ELSE hist
    /\ UNCHANGED <<fs, pendingCtime, ret, orch, restarts>>
    /\ OutsideStore

\* the call of a harness task has returned
HarnessReturn(t) ==
    /\ t \in Orchs /\ orch[t] = "off"
    /\ pc[t] = "done"
    /\ Consume(t)
    /\ hold' = IF ret[t].kind = "triple"
               THEN [hold EXCEPT ![t] = [id |-> ret[t].id, rc |-> ret[t].rc]]
               ELSE hold
    /\ hist' = IF ret[t].kind = "triple"
               THEN NoteClaim([hist EXCEPT !.claims[ret[t].id] = @ + 1,
                                           !.rqDone = IF ret[t].id[2] = ""
                                                      THEN [@ EXCEPT ![ret[t].id[1]] = NoneRc]
                                                      ELSE @], t)
               ELSE IF loc[t].op = "requeue" /\ ret[t].kind = "None" /\ loc[t].id[2] = ""
               THEN [hist EXCEPT !.rqDone[loc[t].id[1]] = loc[t].rc]
               ELSE hist
    /\ UNCHANGED <<fs, pendingCtime, orch, ops, restarts>>
    /\ OutsideStore

\* ------------------------------------------------------- main.py worker
\* line 58: job_details = await job_manager.get_next_job()
WorkerPoll(t) ==
    /\ t \in Orchs /\ orch[t] = "poll" /\ pc[t] = "idle"
    /\ pc' = [pc EXCEPT ![t] = "gnj_glob"]
    /\ loc' = [loc EXCEPT ![t] = [LocInit EXCEPT !.op = "claim"]]
    /\ orch' = [orch EXCEPT ![t] = "await"]
    /\ UNCHANGED <<fs, pendingCtime, ret, hold, ops, restarts, hist>>
    /\ OutsideStore

\* line 60: job_id, data = job_details -- two names for the tuple get_next_job
\* returned; a tuple of any other length raises ValueError
UnpackJobDetails(details) == Len(details) = 2

\* lines 59-60, 76-77, 81-83: None -> sleep(5); a tuple that unpacks -> process
\* it; ValueError or an exception of get_next_job -> the loop's except, sleep(10)
WorkerResume(t) ==
    /\ t \in Orchs /\ orch[t] = "await" /\ pc[t] = "done"
    /\ Consume(t)
    /\ orch' = [orch EXCEPT ![t] =
          IF ret[t].kind = "None" THEN "sleep5"
          ELSE IF ret[t].kind = "triple"
                  /\ UnpackJobDetails(<<ret[t].id, ret[t].data, ret[t].rc>>)
               THEN "process"
               ELSE "sleep10"]
    /\ hist' = IF ret[t].kind = "triple"
               THEN [hist EXCEPT !.claims[ret[t].id] = @ + 1, !.handled[t] = ret[t].id]
               ELSE hist
    /\ UNCHANGED <<fs, pendingCtime, hold, ops, restarts>>
    /\ OutsideStore

\* lines 77, 83: the sleep ends, the loop polls again
WorkerWake(t) ==
    /\ t \in Orchs /\ orch[t] \in {"sleep5", "sleep10"}
    /\ orch' = [orch EXCEPT ![t] = "poll"]
    /\ UNCHANGED <<fs, pendingCtime, pc, loc, ret, hold, ops, restarts, hist>>
    /\ OutsideStore

\* lines 61-75: process_and_add_episode(data); when it returns,
\* update_job_status(job_id, COMPLETED, ...); when it raises any Exception,
\* update_job_status(job_id, FAILED, "Failed to process episode: ...").  There
\* is no call of requeue_job_for_retry.  The worker never stands at "process":
\* line 60 raises first.
WorkerProcess(t, raised) ==
    /\ t \in Orchs /\ orch[t] = "process" /\ pc[t] = "idle"
    /\ pc' = [pc EXCEPT ![t] = "gs_exists"]
    /\ loc' = [loc EXCEPT ![t] =
          [LocInit EXCEPT !.op = "update", !.id = hist.handled[t],
                          !.new = IF raised THEN FAILED ELSE COMPLETED,
                          !.msg = IF raised THEN "error" ELSE "ingested",
                          !.arg = NoneRc, !.kgs = "ujs", !.kujs = "top", !.d = 1]]
    /\ orch' = [orch EXCEPT ![t] = "await"]
    /\ UNCHANGED <<fs, pendingCtime, ret, hold, ops, restarts, hist>>
    /\ OutsideStore

\* lifespan (lines 87-122): the process stops -- the worker task is cancelled
\* wherever it stands -- and starts again: a new worker task on the same
\* directories; JobManager.__init__ only creates missing directories
Restart(t) ==
    /\ t \in Orchs /\ orch[t] # "off"
    /\ restarts < MaxRestarts
    /\ restarts' = restarts + 1
    /\ orch' = [orch EXCEPT ![t] = "poll"]
    /\ Consume(t)
    /\ hist' = [hist EXCEPT !.handled[t] = NoId,
                            !.atRestart = {j \in hist.submitDone :
                                             DataDirs(j) \cap {PENDING, PROCESSING} # {}}]
    /\ UNCHANGED <<fs, pendingCtime, hold, ops>>
    /\ OutsideStore

\* ================================================== ComprehensiveManager
\* TaskType members the YAML maps to models
TaskTypes == {"TEXT_TO_TEXT"}
Keys == 1..apiKeys
NoPair == <<0, 0>>

\* the comprehension with its two loops exchanged
ClientsModelsOutermost(c) ==
    [i \in 1..(apiKeys * taskModels[c]) |->
        <<((i - 1) % apiKeys) + 1, ((i - 1) \div apiKeys) + 1>>]

\* line 100: clients = [(k, m) for k in self.api_keys for m in models]
Clients(c) ==
    [i \in 1..(apiKeys * taskModels[c]) |->
        <<((i - 1) \div taskModels[c]) + 1, ((i - 1) % taskModels[c]) + 1>>]

\* lines 141-150: clients = [(key, best_model) for key in self.api_keys], the
\* best model being the last of the task's list
BestClients(c) == [i \in 1..apiKeys |-> <<i, taskModels[c]>>]

\* _is_on_cooldown with the comparison turned round
IsOnCooldownReversed(k) == now > cooldowns[k]

\* lines 166-168: time.time() < self.cooldowns.get(api_key, 0)
IsOnCooldown(k) == now < cooldowns[k]

\* line 157: max_checks = len(self.api_keys) * 5
MaxChecksFactor == 5
\* a scan that gives up one pair later
MaxChecksOneMore == apiKeys * MaxChecksFactor + 1
MaxChecks == apiKeys * MaxChecksFactor

\* lines 158-164: next(client_generator) up to max_checks times from position
\* start of the cycle over list; the first pair whose key is off cooldown is
\* yielded, and after max_checks pairs on cooldown RuntimeError is raised
FirstAvailable(list, start) ==
    LET n == Len(list)
        onCooldown == {k \in Keys : IsOnCooldown(k)}
        free == {i \in 0..(MaxChecks - 1) : list[((start + i) % n) + 1][1] \notin onCooldown}
    IN IF free = {}
       THEN [kind |-> "RuntimeError", pair |-> NoPair, taken |-> MaxChecks]
       ELSE LET i == CHOOSE x \in free : \A y \in free : x <= y
            IN [kind |-> "pair", pair |-> list[((start + i) % n) + 1], taken |-> i + 1]

\* lines 117-164, one call and the next() of the generator it returns: the
\* shared cycle of the task, or with force_best_model a new cycle each call
GetAvailableClientDetails(c, force) ==
    IF taskModels[c] = 0
    THEN [kind |-> "ValueError", pair |-> NoPair, taken |-> 0]
    ELSE IF force THEN FirstAvailable(BestClients(c), 0)
         ELSE FirstAvailable(Clients(c), clientCycle[c])

NoChain == [prev |-> NoPair, cur |-> NoPair, run |-> 0]

\* a caller takes the next client of task c; follow says whether the history
\* chain is kept over this call
PoolTake(c, force, follow) ==
    /\ LET r == GetAvailableClientDetails(c, force) IN
       /\ clientCycle' =
             IF force \/ r.kind = "ValueError" THEN clientCycle
             ELSE [clientCycle EXCEPT ![c] = (@ + r.taken) % Len(Clients(c))]
       /\ lastNext' = [kind |-> r.kind, key |-> r.pair[1], force |-> force,
                       marked |-> r.kind = "pair" /\ cooldowns[r.pair[1]] > 0,
                       early |-> r.kind = "pair" /\ now < cooldowns[r.pair[1]],
                       cooling |-> taskModels[c] > 0 /\ \A k \in Keys : now < cooldowns[k],
                       scan |-> IF r.kind = "RuntimeError" THEN r.taken ELSE 0]
       /\ chain' =
             IF ~follow THEN chain
             ELSE IF r.kind = "pair" /\ \A k \in Keys : ~IsOnCooldown(k)
                  THEN [chain EXCEPT ![c] = [prev |-> @.cur, cur |-> r.pair,
                                             run |-> IF @.run < MaxRun THEN @.run + 1 ELSE @.run]]
                  ELSE [chain EXCEPT ![c] = NoChain]
    /\ UNCHANGED <<apiKeys, taskModels, apiKeyCooldownSeconds, now, cooldowns>>
    /\ UNCHANGED <<storeVars, dispVars>>

\* the calls of SpecPool: the history follows the normal rotation
PoolNext(c, force) == PoolTake(c, force, ~force)

\* a forceBestModel call, the history following the forced calls
PoolNextBest(c) == PoolTake(c, TRUE, TRUE)

\* lines 170-177: mark_key_cooldown(api_key)
MarkKeyCooldown(k) ==
    /\ k \in Keys
    /\ cooldowns' = [cooldowns EXCEPT ![k] = now + apiKeyCooldownSeconds]
    /\ UNCHANGED <<apiKeys, taskModels, apiKeyCooldownSeconds, now, clientCycle,
                   lastNext, chain>>
    /\ UNCHANGED <<storeVars, dispVars>>

\* the clock advances
Tick ==
    /\ now < MaxTime
    /\ now' = now + 1
    /\ UNCHANGED <<apiKeys, taskModels, apiKeyCooldownSeconds, clientCycle, cooldowns,
                   lastNext, chain>>
    /\ UNCHANGED <<storeVars, dispVars>>

NoNext == [kind |-> "", key |-> 0, force |-> FALSE,
           marked |-> FALSE, early |-> FALSE, cooling |-> FALSE, scan |-> 0]

\* ---- the CSV of API keys
MaxRows == 2

\* the "api" cell csv.DictReader gives for a row: empty, blanks only, a key
\* with and without blanks around it, and None for a row too short to have
\* the column
Cells == {"", "  ", " k1 ", "k2", "None"}

CsvFiles ==
    [exists : BOOLEAN, header : BOOLEAN, rows : UNION {[1..n -> Cells] : n \in 0..MaxRows}]

\* str.strip()
Strip(cell) ==
    CASE cell = "  " -> ""
      [] cell = " k1 " -> "k1"
      [] OTHER -> cell

RECURSIVE KeysOf(_)
\* every cell kept as it is
KeysOfUnstripped(rows) ==
    IF rows = <<>> THEN <<>>
    ELSE LET key == Head(rows)
         IN (IF key # "" THEN <<key>> ELSE <<>>) \o KeysOf(Tail(rows))

\* the for loop of lines 72-75
KeysOf(rows) ==
    IF rows = <<>> THEN <<>>
    ELSE LET key == Strip(Head(rows))
         IN (IF key # "" THEN <<key>> ELSE <<>>) \o KeysOf(Tail(rows))

\* _load_api_keys (lines 62-80): the exception raised, if any, and the keys
load_api_keys(file) ==
    IF ~file.exists THEN [raised |-> "FileNotFoundError", keys |-> <<>>]
    ELSE IF ~file.header THEN [raised |-> "ValueError: header", keys |-> <<>>]
    ELSE IF \E i \in 1..Len(file.rows) : file.rows[i] = "None"
    THEN [raised |-> "AttributeError", keys |-> <<>>]
    ELSE IF KeysOf(file.rows) = <<>> THEN [raised |-> "ValueError: no keys", keys |-> <<>>]
    ELSE [raised |-> "", keys |-> KeysOf(file.rows)]

\* __init__ (lines 44-60) for nk keys, models[c] models per task and a cooldown
\* of cd: no cooldown recorded (cooldowns.get(key, 0)), every cycle at its start
PoolInit(nk, models, cd) ==
    /\ apiKeys = nk
    /\ taskModels = models
    /\ apiKeyCooldownSeconds = cd
    /\ now = 1
    /\ clientCycle = [c \in TaskTypes |-> 0]
    /\ cooldowns = [k \in 1..nk |-> 0]
    /\ lastNext = NoNext
    /\ chain = [c \in TaskTypes |-> NoChain]

\* ====================================================== GeminiAPIWorker
\* graphiti_service.py lines 46-60: a ManagedGeminiClient and a
\* ManagedGeminiReranker on one manager, each with a queue and a worker thread
Lanes == {"llm", "reranker"}
CallJobs == 1..MaxJobs
NoJob == <<>>
None == <<"None">>

\* the tuple _execute_job puts on the queue: client.py line 102 (messages,
\* gen_config, future, loop, retry_count), reranker.py line 83 (messages,
\* gen_config, future, loop). messages is modelled by whether _to_contents
\* can convert them, future by the number of the call job.
JobTuple(l, convertible, i, rc) ==
    IF l = "llm" THEN <<convertible, "gen_config", i, "loop", rc>>
    ELSE <<convertible, "gen_config", i, "loop">>

\* client.py lines 99-103, reranker.py lines 81-84: create the future, put the job
ExecuteJob(l, convertible, rc) ==
    /\ ~closed[l]
    /\ \E i \in CallJobs :
        /\ future[i] = "none"
        /\ \A k \in CallJobs : k < i => future[k] # "none"
        /\ future' = [future EXCEPT ![i] = "pending"]
        /\ workQueue' = [workQueue EXCEPT ![l] = Append(@, JobTuple(l, convertible, i, rc))]
    /\ UNCHANGED <<wk, job, clientGenerator, closed, taskDone, callVars>>
    /\ UNCHANGED <<storeVars, poolVars>>

\* close(): put the shutdown signal (client.py lines 76-80, reranker.py 68-73)
Close(l) ==
    /\ ~closed[l]
    /\ closed' = [closed EXCEPT ![l] = TRUE]
    /\ workQueue' = [workQueue EXCEPT ![l] = Append(@, None)]
    /\ UNCHANGED <<wk, job, clientGenerator, future, taskDone, callVars>>
    /\ UNCHANGED <<storeVars, poolVars>>

DispFrame == UNCHANGED <<workQueue, clientGenerator, future, closed, taskDone>>

\* loop.call_soon_threadsafe(future.set_result / future.set_exception, ...)
\* (lines 120, 142, 160, 167): an asyncio future takes one completion; set
\* again it raises InvalidStateError in the event loop, marked "invalid" here
SetFuture(f, v) == IF f \in {"result", "exception", "invalid"} THEN "invalid" ELSE v

\* a worker taking the item that was put last instead of the oldest
WkGetNewest(l) ==
    /\ wk[l] = "get" /\ workQueue[l] # <<>>
    /\ LET n == Len(workQueue[l]) IN
       /\ workQueue' = [workQueue EXCEPT ![l] = SubSeq(@, 1, n - 1)]
       /\ job' = [job EXCEPT ![l] = workQueue[l][n]]
       /\ wk' = [wk EXCEPT ![l] = IF workQueue[l][n] = None THEN "finally" ELSE "unpack"]
    /\ UNCHANGED <<clientGenerator, future, closed, taskDone, callVars>>
    /\ UNCHANGED <<storeVars, poolVars>>

\* worker.py lines 110-112: job = self.work_queue.get(); None ends the loop
\* by break, through the finally clause
WkGet(l) ==
    /\ wk[l] = "get" /\ workQueue[l] # <<>>
    /\ workQueue' = [workQueue EXCEPT ![l] = Tail(@)]
    /\ job' = [job EXCEPT ![l] = Head(workQueue[l])]
    /\ wk' = [wk EXCEPT ![l] = IF Head(workQueue[l]) = None THEN "finally" ELSE "unpack"]
    /\ UNCHANGED <<clientGenerator, future, closed, taskDone, callVars>>
    /\ UNCHANGED <<storeVars, poolVars>>

\* line 114: original_messages, gen_config, future, loop = job
UnpackJob(j) == Len(j) = 4

\* the ValueError of the unpacking leaving run(): the thread ends
WkUnpackStops(l) ==
    /\ wk[l] = "unpack"
    /\ wk' = [wk EXCEPT ![l] = IF UnpackJob(job[l]) THEN "convert" ELSE "stopped"]
    /\ caught' = IF UnpackJob(job[l]) THEN caught
                 ELSE [caught EXCEPT ![job[l][3]] = "ValueError"]
    /\ UNCHANGED <<job, transport, attempt, client, calls, access, applied>> /\ DispFrame
    /\ UNCHANGED <<storeVars, poolVars>>

\* line 114, and lines 169-170 when the unpacking raises ValueError
WkUnpack(l) ==
    /\ wk[l] = "unpack"
    /\ wk' = [wk EXCEPT ![l] = IF UnpackJob(job[l]) THEN "convert" ELSE "finally"]
    /\ caught' = IF UnpackJob(job[l]) THEN caught
                 ELSE [caught EXCEPT ![job[l][3]] = "ValueError"]
    /\ UNCHANGED <<job, transport, attempt, client, calls, access, applied>> /\ DispFrame
    /\ UNCHANGED <<storeVars, poolVars>>

\* a conversion failure going back to the head of the loop at once, the
\* finally clause passed over
WkConvertSkipsPause(l) ==
    /\ wk[l] = "convert"
    /\ IF job[l][1]
       THEN /\ wk' = [wk EXCEPT ![l] = "attempt"] /\ future' = future
            /\ attempt' = [attempt EXCEPT ![l] = 0]
            /\ UNCHANGED <<job, taskDone>>
       ELSE /\ wk' = [wk EXCEPT ![l] = "get"]
            /\ future' = [future EXCEPT ![job[l][3]] = SetFuture(@, "exception")]
            /\ attempt' = attempt
            /\ taskDone' = taskDone \cup {job[l][3]}
            /\ job' = [job EXCEPT ![l] = NoJob]
    /\ UNCHANGED <<workQueue, clientGenerator, closed>>
    /\ UNCHANGED <<transport, client, calls, caught, access, applied>>
    /\ UNCHANGED <<storeVars, poolVars>>

\* lines 116-121: _to_contents; on failure the future gets the exception
WkConvert(l) ==
    /\ wk[l] = "convert"
    /\ IF job[l][1]
       THEN /\ wk' = [wk EXCEPT ![l] = "attempt"] /\ future' = future
            /\ attempt' = [attempt EXCEPT ![l] = 0]
       ELSE /\ wk' = [wk EXCEPT ![l] = "finally"]
            /\ future' = [future EXCEPT ![job[l][3]] = SetFuture(@, "exception")]
            /\ attempt' = attempt
    /\ UNCHANGED <<workQueue, job, clientGenerator, closed, taskDone>>
    /\ UNCHANGED <<transport, client, calls, caught, access, applied>>
    /\ UNCHANGED <<storeVars, poolVars>>

\* line 125: api_key, model_name, _ = ... -- three names for what the
\* generator yields
UnpackClient(details) == Len(details) = 3

\* what line 125 raises when it does not reach line 126: the exception of
\* get_available_client_details, or the ValueError of the unpacking
Raised(r) == IF r.kind = "pair" THEN "ValueError" ELSE r.kind

\* line 125, first attempt of a call job: next(client_generator). A generator
\* not yet started runs get_available_client_details to its yield (manager.py
\* line 161, a key and a model) or to its raise; one that has yielded runs on
\* to its return (line 162) and is exhausted: StopIteration. Any exception,
\* the ValueError of the unpacking too, ends the job at lines 169-170.
WkNextClient(l) ==
    /\ wk[l] = "attempt"
    /\ IF clientGenerator[l] = "new"
       THEN LET r == GetAvailableClientDetails("TEXT_TO_TEXT", FALSE) IN
            /\ clientCycle' =
                  IF r.kind = "ValueError" THEN clientCycle
                  ELSE [clientCycle EXCEPT !["TEXT_TO_TEXT"] =
                           (@ + r.taken) % Len(Clients("TEXT_TO_TEXT"))]
            /\ clientGenerator' =
                  [clientGenerator EXCEPT ![l] = IF r.kind = "pair" THEN "yielded" ELSE "exhausted"]
            /\ IF r.kind = "pair" /\ UnpackClient(r.pair)
               THEN /\ wk' = [wk EXCEPT ![l] = "call"]
                    /\ client' = [client EXCEPT ![l] = r.pair]
                    /\ caught' = caught
               ELSE /\ wk' = [wk EXCEPT ![l] = "finally"]
                    /\ client' = client
                    /\ caught' = [caught EXCEPT ![job[l][3]] = Raised(r)]
       ELSE /\ clientCycle' = clientCycle
            /\ clientGenerator' = [clientGenerator EXCEPT ![l] = "exhausted"]
            /\ wk' = [wk EXCEPT ![l] = "finally"]
            /\ client' = client
            /\ caught' = [caught EXCEPT ![job[l][3]] = "StopIteration"]
    /\ UNCHANGED <<workQueue, job, future, closed, taskDone, transport, attempt, calls, applied>>
    /\ access' = IF clientGenerator[l] = "new" /\ taskModels["TEXT_TO_TEXT"] > 0
                  THEN [by |-> l, op |-> "read", locked |-> FALSE]
                  ELSE access
    /\ UNCHANGED <<apiKeys, taskModels, apiKeyCooldownSeconds, now, cooldowns, lastNext, chain>>
    /\ UNCHANGED storeVars

\* worker.py line 85: max_attempts, which neither client passes
max_attempts == 50

\* what a mock transport answers the n-th external call of a job with
Transports == {"200", "503,503,200", "400", "503"}
TransportStatus(tr, n) ==
    CASE tr = "200" -> 200
      [] tr = "503,503,200" -> IF n <= 2 THEN 503 ELSE 200
      [] tr = "400" -> 400
      [] OTHER -> 503

\* ---- exceptions as objects: class, code attribute, text of str(exc)
MaxWords == 2

\* words of an error text, some of them capitalised
Words == {"Timeout", "timed", "out", "UNAVAILABLE", "Connection", "reset", "aborted", "quota"}

Messages == UNION {[1..n -> Words] : n \in 0..MaxWords}

\* the google-genai client raises ClientError for a 4xx response and
\* ServerError for a 5xx response; anything else (socket errors, timeouts,
\* ValueError ...) is an Exception without a code
Exceptions ==
    [cls : {"ServerError"}, code : {500, 502, 503, 504}, msg : Messages]
        \cup [cls : {"ClientError"}, code : {400, 401, 403, 404, 429}, msg : Messages]
        \cup [cls : {"Exception"}, code : {0}, msg : Messages]

\* the None returned for the status of an error without HTTP code
NoStatus == 0

\* str.lower() on one word
Lower(w) ==
    CASE w = "Timeout" -> "timeout"
      [] w = "UNAVAILABLE" -> "unavailable"
      [] w = "Connection" -> "connection"
      [] OTHER -> w

\* msg = str(exc).lower() (line 59)
LowerMsg(msg) == [i \in 1..Len(msg) |-> Lower(msg[i])]

\* network_hints (lines 60-69), each a run of words
NetworkHints ==
    {<<"timeout">>, <<"temporarily">>, <<"temporary">>, <<"unavailable">>,
     <<"connection", "reset", "by", "peer">>, <<"connection", "reset">>,
     <<"connection", "aborted">>, <<"timed", "out">>}

\* h in msg (line 70)
Contains(msg, h) ==
    \E i \in 1..(Len(msg) - Len(h) + 1) : SubSeq(msg, i, i + Len(h) - 1) = h

\* the hints tested before the class of the error
is_retryable_exception_hints_first(exc) ==
    IF \E h \in NetworkHints : Contains(LowerMsg(exc.msg), h) THEN <<TRUE, NoStatus>>
    ELSE IF exc.cls = "ServerError" THEN <<TRUE, exc.code>>
    ELSE IF exc.cls = "ClientError"
    THEN IF exc.code = 429 THEN <<TRUE, 429>> ELSE <<FALSE, exc.code>>
    ELSE <<FALSE, NoStatus>>

\* _is_retryable_exception (lines 40-73): (retryable, status)
is_retryable_exception(exc) ==
    IF exc.cls = "ServerError" THEN <<TRUE, exc.code>>
    ELSE IF exc.cls = "ClientError"
    THEN IF exc.code = 429 THEN <<TRUE, 429>> ELSE <<FALSE, exc.code>>
    ELSE IF \E h \in NetworkHints : Contains(LowerMsg(exc.msg), h) THEN <<TRUE, NoStatus>>
    ELSE <<FALSE, NoStatus>>

\* worker.py lines 86-87: base_backoff and max_backoff in seconds, which
\* neither client passes
base_backoff == 1
max_backoff == 10

\* random.random(), a float of [0, 1), in thousandths
RandomThousandths == {0, 250, 500, 750, 999}

Min(a, b) == IF a <= b THEN a ELSE b

\* the backoff taken from the attempt index itself
sleep_with_jitter_from_zero(attempt_idx, r) ==
    LET backoff == Min(max_backoff, base_backoff * attempt_idx)
    IN [backoff |-> backoff, sleep_ms |-> backoff * (500 + r)]

\* _sleep_with_jitter (lines 97-101): the nominal backoff in seconds and the
\* argument of time.sleep in milliseconds, backoff * (0.5 + random.random())
sleep_with_jitter(attempt_idx, r) ==
    LET backoff == Min(max_backoff, base_backoff * (attempt_idx + 1))
    IN [backoff |-> backoff, sleep_ms |-> backoff * (500 + r)]

\* the except clause of one attempt (lines 145-161) and the else of the for
\* loop (lines 162-167): the statement that ends the clause, what the future
\* gets, and where the loop goes
OnException(exc, a) ==
    IF is_retryable_exception(exc)[1]
    THEN IF a + 1 < max_attempts
         THEN [stmt |-> "continue", slept |-> TRUE, future |-> "pending", next |-> "attempt"]
         ELSE [stmt |-> "continue", slept |-> TRUE, future |-> "exception", next |-> "exhausted"]
    ELSE [stmt |-> "break", slept |-> FALSE, future |-> "exception", next |-> "finally"]

\* _is_retryable_exception (lines 40-73) for an HTTP error: ServerError (5xx)
\* always, ClientError (4xx) only for 429
IsRetryableException(status) == status >= 500 \/ status = 429

\* lines 130-167, one attempt: the external call and what follows it. On
\* success the key is marked and the future gets the result; a retryable
\* error goes to the next attempt, or after the last one to the else of the
\* for loop (lines 162-167); any other error is set on the future.
\* Line 125 never binds its three names (see WkNextClient), so no behaviour
\* of the worker gets here.
WkCall(l) ==
    /\ wk[l] = "call"
    /\ LET i == job[l][3]
           status == TransportStatus(transport, calls[i] + 1)
       IN /\ calls' = [calls EXCEPT ![i] = @ + 1]
          /\ IF status = 200
             THEN /\ cooldowns' = [cooldowns EXCEPT ![client[l][1]] = now + apiKeyCooldownSeconds]
                  /\ access' = [by |-> l, op |-> "write", locked |-> TRUE]
                  /\ future' = [future EXCEPT ![i] = SetFuture(@, "result")]
                  /\ wk' = [wk EXCEPT ![l] = "finally"]
                  /\ attempt' = attempt
             ELSE IF IsRetryableException(status) /\ attempt[l] + 1 < max_attempts
             THEN /\ attempt' = [attempt EXCEPT ![l] = @ + 1]
                  /\ wk' = [wk EXCEPT ![l] = "attempt"]
                  /\ UNCHANGED <<cooldowns, future, access>>
             ELSE /\ future' = [future EXCEPT ![i] = SetFuture(@, "exception")]
                  /\ wk' = [wk EXCEPT ![l] = "finally"]
                  /\ UNCHANGED <<cooldowns, attempt, access>>
    /\ UNCHANGED <<workQueue, job, clientGenerator, closed, taskDone, transport, client, caught, applied>>
    /\ UNCHANGED <<apiKeys, taskModels, apiKeyCooldownSeconds, now, clientCycle, lastNext, chain>>
    /\ UNCHANGED storeVars

\* a finally clause that also rejects the future of the job it ends
WkFinallyRejects(l) ==
    /\ wk[l] = "finally"
    /\ taskDone' = IF job[l] = None THEN taskDone ELSE taskDone \cup {job[l][3]}
    /\ future' = IF job[l] = None THEN future
                 ELSE [future EXCEPT ![job[l][3]] = SetFuture(@, "exception")]
    /\ wk' = [wk EXCEPT ![l] = "sleep"]
    /\ UNCHANGED <<workQueue, job, clientGenerator, closed, callVars>>
    /\ UNCHANGED <<storeVars, poolVars>>

\* lines 172-174: the finally clause, task_done() for a job
WkFinally(l) ==
    /\ wk[l] = "finally"
    /\ taskDone' = IF job[l] = None THEN taskDone ELSE taskDone \cup {job[l][3]}
    /\ wk' = [wk EXCEPT ![l] = "sleep"]
    /\ UNCHANGED <<workQueue, job, clientGenerator, future, closed, callVars>>
    /\ UNCHANGED <<storeVars, poolVars>>

\* line 175: time.sleep(self.delay_between_calls) ends; back to the head of
\* the loop, or out of it after the break of line 112
WkSleep(l) ==
    /\ wk[l] = "sleep"
    /\ wk' = [wk EXCEPT ![l] = IF job[l] = None THEN "stopped" ELSE "get"]
    /\ job' = [job EXCEPT ![l] = NoJob]
    /\ UNCHANGED <<workQueue, clientGenerator, future, closed, taskDone, callVars>>
    /\ UNCHANGED <<storeVars, poolVars>>

\* no function applied yet
NoApplied == [fn |-> "", arg |-> <<>>, out |-> <<>>]

\* no worker thread has touched self.cooldowns yet
NoAccess == [by |-> "", op |-> "", locked |-> FALSE]

\* both lanes constructed: empty queues, worker threads started (run() made
\* its generator at line 105 and waits at line 110)
DispInit ==
    /\ workQueue = [l \in Lanes |-> <<>>]
    /\ wk = [l \in Lanes |-> "get"]
    /\ job = [l \in Lanes |-> NoJob]
    /\ clientGenerator = [l \in Lanes |-> "new"]
    /\ future = [i \in CallJobs |-> "none"]
    /\ closed = [l \in Lanes |-> FALSE]
    /\ taskDone = {}
    /\ attempt = [l \in Lanes |-> 0]
    /\ client = [l \in Lanes |-> NoPair]
    /\ calls = [i \in CallJobs |-> 0]
    /\ caught = [i \in CallJobs |-> ""]
    /\ access = NoAccess
    /\ applied = NoApplied

\* ------------------------------------------------------- specifications
HistInit ==
    [submitted |-> {}, submitDone |-> {}, payload |-> [j \in Jobs |-> ""],
     claims |-> [i \in Ids |-> 0], rqCalls |-> [j \in Jobs |-> 0],
     rqDone |-> [j \in Jobs |-> NoneRc], handled |-> [t \in Orchs |-> NoId],
     clean |-> {}, atRestart |-> {}]

\* JobManager.__init__: four empty state directories
InitFiles ==
    /\ fs = [d \in Dirs |-> [n \in Names |-> NoFile]]
    /\ pendingCtime = <<>>
    /\ pc = [t \in Tasks |-> "idle"]
    /\ loc = [t \in Tasks |-> LocInit]
    /\ ret = [t \in Tasks |-> RetInit]
    /\ hold = [t \in Orchs |-> NoHold]
    /\ ops = 0
    /\ restarts = 0
    /\ hist = HistInit

\* the job store with a manager nobody calls
InitJobs == InitFiles /\ PoolInit(1, [c \in TaskTypes |-> 1], 1) /\ DispInit /\ transport = "200"

\* The JobStore driven by one caller of claim / update / requeue, and a
\* submitter running concurrently with it.
Callers == {"t1"}
InitStore == InitJobs /\ orch = [t \in Orchs |-> "off"]
NextStore ==
    \/ \E j \in Jobs, p \in Payloads : ApiSubmit(j, p)
    \/ ApiReturn
    \/ \E t \in Callers : HarnessClaim(t) \/ HarnessRequeue(t) \/ HarnessReturn(t)
    \/ \E t \in Callers, s \in {COMPLETED, FAILED} : HarnessUpdate(t, s)
    \/ \E t \in Callers \cup {"api"} : JobManagerStep(t) \/ RequeueStep(t)
SpecStore == InitStore /\ [][NextStore]_vars

\* The same from the moment the caller holds a first job: submit_job("j1", p1)
\* has returned, and then get_next_job() with ("j1", p1, 0).
InitRetry ==
    /\ fs = [d \in Dirs |-> [n \in Names |->
                IF d = PROCESSING /\ n = <<"j1", "json">> THEN DataFile("p1")
                ELSE IF d = PROCESSING /\ n = <<"j1", "status.json">>
                     THEN StatusFile(PROCESSING, "attempt", 0)
                     ELSE NoFile]]
    /\ pendingCtime = <<>>
    /\ pc = [t \in Tasks |-> "idle"]
    /\ loc = [t \in Tasks |-> LocInit]
    /\ ret = [t \in Tasks |-> RetInit]
    /\ hold = [t \in Orchs |-> IF t = "t1" THEN [id |-> <<"j1", "">>, rc |-> 0] ELSE NoHold]
    /\ ops = 0
    /\ restarts = 0
    /\ hist = [HistInit EXCEPT !.submitted = {"j1"}, !.submitDone = {"j1"},
                               !.payload["j1"] = "p1", !.claims[<<"j1", "">>] = 1,
                               !.clean = {"j1"}]
    /\ orch = [t \in Orchs |-> "off"]
    /\ PoolInit(1, [c \in TaskTypes |-> 1], 1) /\ DispInit /\ transport = "200"
SpecRetry == InitRetry /\ [][NextStore]_vars

\* The same with status requests served while the caller's calls are under way.
Readers == {"t2"}
NextStatus ==
    \/ NextStore
    \/ \E t \in Readers, j \in Jobs : ApiStatus(t, j)
    \/ \E t \in Readers : StatusReturn(t) \/ JobManagerStep(t)
SpecStatus == InitRetry /\ [][NextStatus]_vars

\* The same, the caller also repeating an update to the state a job is in.
NextSame ==
    \/ NextStore
    \/ \E t \in Callers, j \in Jobs, s \in Dirs : HarnessUpdateSame(t, j, s)
SpecSame == InitStore /\ [][NextSame]_vars

\* The job store with a submitter that may use an id again, and a caller of
\* claim and update.
NextDup ==
    \/ \E j \in Jobs, p \in Payloads : ApiSubmit(j, p) \/ SubmitAgain(j, p)
    \/ ApiReturn
    \/ \E t \in Callers : HarnessClaim(t) \/ HarnessReturn(t)
    \/ \E t \in Callers, s \in {COMPLETED, FAILED} : HarnessUpdate(t, s)
    \/ \E t \in Callers \cup {"api"} : JobManagerStep(t)
SpecDup == InitStore /\ [][NextDup]_vars

\* main.py: Orchestrator instances polling one job directory, and a submitter.
InitOrch == InitJobs /\ orch = [t \in Orchs |-> "poll"]
WorkerStep(t) == WorkerPoll(t) \/ WorkerResume(t) \/ WorkerWake(t) \/ JobManagerStep(t)
NextOrch ==
    \/ \E j \in Jobs, p \in Payloads : ApiSubmit(j, p)
    \/ ApiReturn
    \/ JobManagerStep("api")
    \/ \E t \in Orchs : WorkerStep(t) \/ Restart(t)
\* two Orchestrator instances and a submitter, no restart
NextRace ==
    \/ \E j \in Jobs, p \in Payloads : ApiSubmit(j, p)
    \/ ApiReturn
    \/ JobManagerStep("api")
    \/ \E t \in Orchs : WorkerStep(t)
SpecRace == InitOrch /\ [][NextRace]_vars

\* one Orchestrator instance and a submitter, no restart
InitSingle == InitJobs /\ orch = [t \in Orchs |-> IF t = "t1" THEN "poll" ELSE "off"]
NextSingle ==
    \/ \E j \in Jobs, p \in Payloads : ApiSubmit(j, p)
    \/ ApiReturn
    \/ JobManagerStep("api")
    \/ WorkerStep("t1")
SpecSingle == InitSingle /\ [][NextSingle]_vars

\* the event loop keeps running a worker task that can take a step
SpecOrch == InitOrch /\ [][NextOrch]_vars /\ \A t \in Orchs : WF_vars(WorkerStep(t))


\* The manager alone: any CSV of 1..MaxKeys keys, any YAML listing up to
\* MaxModels models per task, any cooldown of 1..MaxCooldown seconds.
InitPool ==
    /\ InitFiles /\ orch = [t \in Orchs |-> "off"] /\ DispInit /\ transport = "200"
    /\ \E nk \in 1..MaxKeys, cd \in 1..MaxCooldown :
       \E models \in [TaskTypes -> 0..MaxModels] : PoolInit(nk, models, cd)
NextPool ==
    \/ \E c \in TaskTypes, force \in BOOLEAN : PoolNext(c, force)
    \/ \E k \in 1..MaxKeys : MarkKeyCooldown(k)
    \/ Tick
SpecPool == InitPool /\ [][NextPool]_vars

\* The manager asked for the best model only (escalated retries).
NextBest ==
    \/ \E c \in TaskTypes : PoolNextBest(c)
    \/ \E k \in 1..MaxKeys : MarkKeyCooldown(k)
    \/ Tick
SpecBest == InitPool /\ [][NextBest]_vars

\* GraphitiService: the two lanes on one manager, callers submitting call
\* jobs of either kind, shutdown at any moment.
InitDisp == InitPool
NextDisp ==
    \/ \E l \in Lanes, convertible \in BOOLEAN, rc \in {0, 1} : ExecuteJob(l, convertible, rc)
    \/ \E l \in Lanes : Close(l)
    \/ \E l \in Lanes : WkGet(l) \/ WkUnpack(l) \/ WkConvert(l) \/ WkNextClient(l)
    \/ \E l \in Lanes : WkFinally(l) \/ WkSleep(l)
SpecDisp == InitDisp /\ [][NextDisp]_vars

\* The reranker lane (whose 4-tuple jobs pass line 114) against a mock
\* transport: callers submit convertible requests, shutdown at any moment.
InitLane ==
    /\ InitFiles /\ orch = [t \in Orchs |-> "off"] /\ DispInit
    /\ transport \in Transports
    /\ \E nk \in 1..MaxKeys, cd \in 1..MaxCooldown :
       \E models \in [TaskTypes -> 0..MaxModels] : PoolInit(nk, models, cd)
NextLane ==
    \/ ExecuteJob("reranker", TRUE, 0)
    \/ Close("reranker")
    \/ WkGet("reranker") \/ WkUnpack("reranker") \/ WkConvert("reranker")
    \/ WkNextClient("reranker") \/ WkFinally("reranker") \/ WkSleep("reranker")
SpecLane == InitLane /\ [][NextLane]_vars

\* The same lane on a manager whose keys other users put on cooldown while
\* the clock runs.
NextCooling ==
    \/ NextLane
    \/ \E k \in 1..MaxKeys : MarkKeyCooldown(k)
    \/ Tick
SpecCooling == InitLane /\ [][NextCooling]_vars

\* Both lanes on a manager of one key and one model, the operating system
\* going on scheduling a worker thread that can take a step: every statement
\* of the loop body ends (the sleeps are finite, the attempts bounded).
WorkerThreadStep(l) ==
    \/ WkGet(l) \/ WkUnpack(l) \/ WkConvert(l) \/ WkNextClient(l)
    \/ WkFinally(l) \/ WkSleep(l)
InitShutdown == InitStore
NextShutdown ==
    \/ \E l \in Lanes : ExecuteJob(l, TRUE, 0)
    \/ \E l \in Lanes : Close(l)
    \/ \E l \in Lanes : WorkerThreadStep(l)
SpecShutdown ==
    InitShutdown /\ [][NextShutdown]_vars /\ \A l \in Lanes : WF_vars(WorkerThreadStep(l))

\* Both lanes on the same manager, requests that convert and requests that
\* do not.
NextPause ==
    \/ \E l \in Lanes, convertible \in BOOLEAN : ExecuteJob(l, convertible, 0)
    \/ \E l \in Lanes : Close(l)
    \/ \E l \in Lanes : WorkerThreadStep(l)
SpecPause == InitShutdown /\ [][NextPause]_vars

\* ---- the functions of worker.py applied to every input of a bounded set,
\* one application in a behaviour
AppliedFrame ==
    UNCHANGED <<storeVars, poolVars, workQueue, wk, job, clientGenerator, future, closed,
                taskDone, transport, attempt, client, calls, caught, access>>

\* retryable, status = _is_retryable_exception(e) (line 147)
ApplyClassify ==
    /\ applied.fn = ""
    /\ \E exc \in Exceptions :
         applied' = [fn |-> "_is_retryable_exception", arg |-> exc,
                     out |-> is_retryable_exception(exc)]
    /\ AppliedFrame

\* the except clause at a first, a middle and the last attempt
ApplyExcept ==
    /\ applied.fn = ""
    /\ \E exc \in Exceptions, a \in {0, 1, max_attempts - 1} :
         applied' = [fn |-> "except", arg |-> [exc |-> exc, attempt |-> a],
                     out |-> OnException(exc, a)]
    /\ AppliedFrame

\* self._sleep_with_jitter(attempt) (line 155) for every attempt of the loop
ApplySleep ==
    /\ applied.fn = ""
    /\ \E a \in 0..(max_attempts - 1), r \in RandomThousandths :
         applied' = [fn |-> "_sleep_with_jitter", arg |-> [attempt |-> a, random |-> r],
                     out |-> sleep_with_jitter(a, r)]
    /\ AppliedFrame

NextClassify == ApplyClassify \/ ApplyExcept \/ ApplySleep
SpecClassify == InitStore /\ [][NextClassify]_vars


\* Requests of every fate: on the LLM lane the job tuple does not unpack
\* (whatever its messages), on the reranker lane the conversion fails or the
\* pool's generator raises. Worker threads run as long as they can.
NextSurvive ==
    \/ ExecuteJob("llm", TRUE, 0)
    \/ \E convertible \in BOOLEAN : ExecuteJob("reranker", convertible, 0)
    \/ \E l \in Lanes : Close(l)
    \/ \E l \in Lanes : WorkerThreadStep(l)
SpecSurvive ==
    InitShutdown /\ [][NextSurvive]_vars /\ \A l \in Lanes : WF_vars(WorkerThreadStep(l))

\* ---- the manager with a long list of models
\* a YAML that lists ten models for the task
ManyModels == 10

InitMany ==
    /\ InitFiles /\ orch = [t \in Orchs |-> "off"] /\ DispInit /\ transport = "200"
    /\ \E nk \in 1..MaxKeys, cd \in 1..MaxCooldown :
           PoolInit(nk, [c \in TaskTypes |-> ManyModels], cd)
SpecMany == InitMany /\ [][NextPool]_vars

\* ---- construction of the service from a CSV of keys
\* nothing constructed yet: no manager, no client, no worker thread
InitLoad ==
    /\ InitFiles /\ orch = [t \in Orchs |-> "off"] /\ transport = "200"
    /\ apiKeys = 0
    /\ taskModels = [c \in TaskTypes |-> 0]
    /\ apiKeyCooldownSeconds = 0
    /\ now = 1
    /\ clientCycle = [c \in TaskTypes |-> 0]
    /\ cooldowns = <<>>
    /\ lastNext = NoNext
    /\ chain = [c \in TaskTypes |-> NoChain]
    /\ workQueue = [l \in Lanes |-> <<>>]
    /\ wk = [l \in Lanes |-> "unborn"]
    /\ job = [l \in Lanes |-> NoJob]
    /\ clientGenerator = [l \in Lanes |-> "new"]
    /\ future = [i \in CallJobs |-> "none"]
    /\ closed = [l \in Lanes |-> FALSE]
    /\ taskDone = {}
    /\ attempt = [l \in Lanes |-> 0]
    /\ client = [l \in Lanes |-> NoPair]
    /\ calls = [i \in CallJobs |-> 0]
    /\ caught = [i \in CallJobs |-> ""]
    /\ access = NoAccess
    /\ applied = NoApplied

\* GraphitiService.__init__ (lines 39-60): ComprehensiveManager(...) loads the
\* keys (manager.py line 51); an exception leaves __init__ there, otherwise
\* the manager is built and then both clients, each starting its worker
ServiceInit(file) ==
    /\ applied.fn = ""
    /\ LET r == load_api_keys(file)
       IN /\ applied' = [fn |-> "_load_api_keys", arg |-> file, out |-> r]
          /\ IF r.raised = ""
             THEN /\ apiKeys' = Len(r.keys)
                  /\ taskModels' = [c \in TaskTypes |-> 1]
                  /\ apiKeyCooldownSeconds' = 1
                  /\ cooldowns' = [k \in 1..Len(r.keys) |-> 0]
                  /\ wk' = [l \in Lanes |-> "get"]
             ELSE UNCHANGED <<apiKeys, taskModels, apiKeyCooldownSeconds, cooldowns, wk>>
    /\ UNCHANGED <<now, clientCycle, lastNext, chain>>
    /\ UNCHANGED <<workQueue, job, clientGenerator, future, closed, taskDone, transport,
                   attempt, client, calls, caught, access>>
    /\ UNCHANGED storeVars

NextLoad == \E file \in CsvFiles : ServiceInit(file)
SpecLoad == InitLoad /\ [][NextLoad]_vars

\* ================================================================ claims
\* C2: a call job the dispatcher is done with has its result handle completed,
\* with a response or with a terminal error: no caller is left waiting.
C2_HandleCompleted ==
    \A i \in taskDone : future[i] \in {"result", "exception"}

InPending(j) == \E e \in Exts : Exists(PENDING, <<j, e>>)

\* C3: at any instant the payload file and the status file of every submitted
\* job are both present in exactly one state directory, the same for both.
C3_PairInOneDirectory ==
    \A j \in hist.submitDone :
        /\ Cardinality(DataDirs(j)) = 1
        /\ StatusDirs(j) = DataDirs(j)

\* a claimNext call of task t has returned job id i
Returned(t, i) ==
    pc[t] = "done" /\ loc[t].op = "claim" /\ ret[t].kind = "triple" /\ ret[t].id = i

\* C4: of the claimNext calls two Orchestrator instances run concurrently on
\* one JobStore, at most one returns a given job.
C4_AtMostOneClaim ==
    \A j \in Jobs :
        hist.claims[<<j, "">>] + Cardinality({t \in Orchs : Returned(t, <<j, "">>)}) <= 1

\* both instances chose the same pending job; one call returned it, the other
\* found its file gone and returned None
C4_Witness ==
    \E t, u \in Orchs :
        /\ t # u
        /\ \E j \in Jobs : Returned(t, <<j, "">>) /\ ret[u].log = <<j, "">>
        /\ pc[u] = "done" /\ ret[u].kind = "None"

Finished(j) == StatusNow(<<j, "">>) # NoFile /\ StatusNow(<<j, "">>).status \in {COMPLETED, FAILED}

\* C5: every job that is PENDING or PROCESSING when the process has stopped
\* and started again is eventually COMPLETED or FAILED.
C5_NoWorkLost ==
    \A j \in Jobs : (j \in hist.atRestart) ~> Finished(j)

\* C6: the claimNext that claims a job j which was submitted with payload p
\* and never requeued returns (j, p, 0); then getStatus(j) reports PROCESSING
\* and no file of j is left in pending/.
C6_ClaimReturnsSubmitted ==
    \A t \in Callers : \A j \in Jobs :
        (Returned(t, <<j, "">>) /\ j \in loc[t].pre) =>
            /\ ret[t].data = DataFile(hist.payload[j])
            /\ ret[t].rc = 0
            /\ StatusNow(<<j, "">>) # NoFile
            /\ StatusNow(<<j, "">>).status = PROCESSING
            /\ ~InPending(j)

\* a claim returned a submitted, never requeued job while the other job was
\* submitted and waiting as well
C6_Witness ==
    \E t \in Callers : \E j \in Jobs :
        /\ Returned(t, <<j, "">>) /\ loc[t].pre = Jobs
        /\ \E k \in Jobs \ {j} : InPending(k)

\* requeueForRetry(j, n, message) has returned to task t
Requeued(t, j) ==
    pc[t] = "done" /\ loc[t].op = "requeue" /\ loc[t].id = <<j, "">> /\ ret[t].kind = "None"

\* C7: after requeueForRetry(j, n, message) on a claimed job, j is PENDING with
\* retryCount n and the message as last failure reason; and when j is the only
\* pending job, the next claimNext returns j, its original payload and n.
C7_RequeueThenReclaim ==
    \A t \in Callers : \A j \in Jobs :
        /\ (Requeued(t, j) /\ j \in hist.clean) =>
              /\ DataDirs(j) = {PENDING}
              /\ StatusNow(<<j, "">>) = StatusFile(PENDING, loc[t].msg, loc[t].rc)
              /\ fs[PENDING][<<j, "retry.json">>] = RetryFile(loc[t].rc, loc[t].msg)
        /\ (pc[t] = "done" /\ loc[t].op = "claim" /\ ret[t].kind = "triple"
               /\ loc[t].preRq = <<j, "">> /\ j \in hist.clean) =>
              /\ ret[t].id = <<j, "">>
              /\ ret[t].data = DataFile(hist.payload[j])
              /\ ret[t].rc = hist.rqDone[j]

\* C8: the Orchestrator ends its handling of a claimed job with the job
\* COMPLETED, FAILED (retries used up) or requeued as PENDING with a retry
\* count above zero: no job stays claimed, and none is claimed without end.
C8_HandledJobSettled ==
    \A t \in Orchs :
        hist.handled[t] # NoId =>
            LET info == StatusNow(hist.handled[t]) IN
            /\ info # NoFile
            /\ \/ info.status \in {COMPLETED, FAILED}
               \/ info.status = PENDING /\ info.retry_count > 0


\* the pair after pr in the cross product keys x models of task c, keys outermost
NextInOrder(c, pr) ==
    IF pr[2] < taskModels[c] THEN <<pr[1], pr[2] + 1>>
    ELSE <<(pr[1] % apiKeys) + 1, 1>>

\* C9: while no key is on cooldown, each normal next() for a task returns the
\* pair that follows the previous one in the credentials x models list (keys
\* outermost, wrapping at the end): every pair once per cycle, in list order.
C9_RoundRobin ==
    \A c \in TaskTypes :
        chain[c].run >= 2 => chain[c].cur = NextInOrder(c, chain[c].prev)

\* a whole cycle over two keys and two models was returned, and the next call
\* began the list again
C9_Witness ==
    \E c \in TaskTypes :
        /\ apiKeys = 2 /\ taskModels[c] = 2
        /\ chain[c].run >= 5 /\ chain[c].prev = <<2, 2>> /\ chain[c].cur = <<1, 1>>

\* C10: a next() (normal or forceBestModel) that returns key c after
\* markUsed(c) does so only when the cooldown has elapsed on the clock.
C10_CooldownRespected ==
    lastNext.kind = "pair" => ~lastNext.early

\* a marked key was returned again, its cooldown over
C10_Witness ==
    lastNext.kind = "pair" /\ lastNext.marked /\ ~lastNext.early

\* C11: a next() for a category the pool has pairs for, made while every key
\* is in cooldown, ends with the exhaustion error (RuntimeError) after having
\* inspected at most len(keys) * K pairs of the cycle.
C11_BoundedScan ==
    lastNext.cooling =>
        /\ lastNext.kind = "RuntimeError"
        /\ lastNext.scan <= apiKeys * MaxChecksFactor

\* with two keys both cooling the call gave up after ten pairs
C11_Witness ==
    /\ apiKeys = 2 /\ lastNext.cooling
    /\ lastNext.kind = "RuntimeError" /\ lastNext.scan = 2 * MaxChecksFactor

\* a call job of the lane that the worker is done with
Done(i) == i \in taskDone

\* C12: with a transport that answers 503, 503, 200 a job resolves
\* successfully after three calls, and only successful attempts put a key in
\* cooldown: no more keys are cooling than jobs were served.
C12_RetryThenSuccess ==
    transport = "503,503,200" =>
        /\ \A i \in CallJobs : Done(i) => future[i] = "result" /\ calls[i] = 3
        /\ Cardinality({k \in Keys : cooldowns[k] > 0})
              <= Cardinality({i \in CallJobs : future[i] = "result"})

\* C13: with a transport that always answers 400 a job is rejected with that
\* error after exactly one external call.
C13_FatalNotRetried ==
    transport = "400" =>
        \A i \in CallJobs : Done(i) => future[i] = "exception" /\ calls[i] = 1

\* C14: with a transport that always answers 503 a job gets exactly
\* max_attempts external calls and is then rejected; no job ever gets more
\* than max_attempts calls.
C14_AttemptsExhausted ==
    /\ \A i \in CallJobs : calls[i] <= max_attempts
    /\ transport = "503" =>
          \A i \in CallJobs : Done(i) => future[i] = "exception" /\ calls[i] = max_attempts

\* C15: a job whose attempt found every key cooling down (the pool raised its
\* exhaustion error) has its handle failed, without any external call.
C15_ExhaustionFailsJob ==
    \A i \in CallJobs :
        (Done(i) /\ caught[i] = "RuntimeError") => future[i] = "exception" /\ calls[i] = 0

\* C17: update_job_status(j, s, msg) on a job that is in state s already (at
\* first, or because the call before moved it there) leaves one payload file
\* and one status file of j, both in the directory of s, the payload as it
\* was submitted and the status record saying s with the new message.
C17_UpdateSameState ==
    \A t \in Callers :
        (pc[t] = "done" /\ loc[t].op = "same") =>
            LET j == loc[t].id[1]
                s == loc[t].new
            IN /\ ret[t].kind = "None"
               /\ InState(j, s)
               /\ fs[s][<<j, "json">>] = DataFile(hist.payload[j])
               /\ fs[s][<<j, "status.json">>].message = "again"

\* the second of two updates to COMPLETED in a row has returned
C17_Witness ==
    \E t \in Callers :
        /\ pc[t] = "done" /\ loc[t].op = "same" /\ loc[t].new = COMPLETED
        /\ InState(loc[t].id[1], COMPLETED)

\* C18: a submit_job with a new id returns normally and the payload is stored;
\* one with the id of a job already in the store fails with DuplicateJobId and
\* leaves that job's payload where and as it was.
C18_DuplicateRejected ==
    LET j == loc["api"].id[1] IN
    /\ (pc["api"] = "done" /\ loc["api"].op = "submit") =>
          /\ ret["api"].kind = "None"
          /\ \E d \in Dirs : fs[d][<<j, "json">>] = DataFile(hist.payload[j])
    /\ (pc["api"] = "done" /\ loc["api"].op = "resubmit") =>
          /\ ret["api"].kind = "DuplicateJobId"
          /\ Cardinality(DataDirs(j)) = 1
          /\ \E d \in Dirs : fs[d][<<j, "json">>] = DataFile(hist.payload[j])

\* the jobs whose payload file the claim of t listed, and those of them that
\* were never requeued (no retry file; their payload file is as old as the job)
Listed(t) == {j \in Jobs : <<j, "json">> \in loc[t].jobFiles}
Fresh(t) == {j \in Listed(t) : ~Exists(PENDING, <<j, "retry.json">>)}

\* C19: the job a claim that listed pending jobs selects is the oldest of them
\* that was never retried when there is one, and otherwise a retried one (the
\* one there is, when there is one only).
C19_OldestFreshFirst ==
    \A t \in Callers :
        (pc[t] \in {"gnj_mvdata", "gnj_readretry"} /\ Listed(t) # {}) =>
            IF Fresh(t) # {}
            THEN loc[t].target = Oldest({<<j, "json">> : j \in Fresh(t)})
            ELSE /\ loc[t].id[2] = "" /\ loc[t].id[1] \in Listed(t)
                 /\ loc[t].target = <<loc[t].id[1], "json">>

\* the claim of t returns None in this step because the file it went to
\* rename had been moved by another claimer
LostRace(t) ==
    /\ pc[t] \in {"gnj_mvdata", "gnj_meta_mv"}
    /\ pc'[t] = "done" /\ ret'[t].kind = "None"

\* C20: a claim that lost the race for its candidate returns Empty only when
\* no other payload file it listed is still pending.
C20_LostRaceTriesNext ==
    [][\A t \in Orchs :
         LostRace(t) =>
            ~\E n \in loc[t].jobFiles :
                n # loc[t].target /\ n[2] = "json" /\ Exists(PENDING, n)]_vars

\* the call of task t is cut short: the task is cancelled inside the call
Interrupted(t) == pc[t] \notin {"idle", "done"} /\ pc'[t] = "idle"

\* C21: a claimNext that is interrupted part-way, no other call being under
\* way, leaves the payload file and the status file of the job it had chosen
\* together in one state directory.
C21_InterruptedLeavesConsistent ==
    [][\A t \in Orchs :
         (Interrupted(t) /\ Quiet(t) /\ loc[t].op = "claim" /\ loc[t].id[2] = ""
            /\ loc[t].id[1] \in hist.submitDone)
            => LET j == loc[t].id[1] IN
               /\ Cardinality(DataDirs(j)) = 1
               /\ StatusDirs(j) = DataDirs(j)]_vars

\* the worker of task t is back in its polling loop: what it did with the
\* job it claimed last has ended
BackInLoop(t) == orch[t] \in {"sleep5", "sleep10", "poll"}

\* C22: a job the Orchestrator claimed with retry count r and whose episode
\* fails content validation (the payload is any payload) has, once the
\* Orchestrator is done with it, been requeued with r + 1 or been made FAILED.
C22_ContentFailureRequeued ==
    \A t \in Orchs :
        (hist.handled[t] # NoId /\ hist.handled[t][2] = "" /\ BackInLoop(t)) =>
            \/ hist.rqCalls[hist.handled[t][1]] > 0
            \/ /\ StatusNow(hist.handled[t]) # NoFile
               /\ StatusNow(hist.handled[t]).status = FAILED

\* C23: once the Orchestrator's processing of a job it claimed has ended, the
\* job is not in PROCESSING any more.
C23_NotLeftProcessing ==
    \A t \in Orchs :
        (hist.handled[t] # NoId /\ BackInLoop(t)) =>
            \A d \in DataDirs(hist.handled[t][1]) \cup StatusDirs(hist.handled[t][1]) :
                d # PROCESSING

\* C24: a forceBestModel next() returns the last model of the task's list, and
\* of two successive forceBestModel calls made while no key is on cooldown,
\* the pool having two keys or more, the second returns another key than the
\* first.
C24_ForcedBestRotates ==
    \A c \in TaskTypes :
        /\ chain[c].run >= 1 => chain[c].cur[2] = taskModels[c]
        /\ (chain[c].run >= 2 /\ apiKeys >= 2) => chain[c].cur[1] # chain[c].prev[1]

RetryCount(j) == StatusNow(<<j, "">>).retry_count

\* C27: the retry count recorded for a job never decreases, whatever claim,
\* update and requeue calls are made (a claim after a requeue included).
C27_RetryCountMonotone ==
    [][\A j \in Jobs :
         (StatusNow(<<j, "">>) # NoFile /\ StatusNow(<<j, "">>)' # NoFile)
            => RetryCount(j)' >= RetryCount(j)]_vars

\* C28: a getStatus call for a job that had been submitted when the call
\* began returns the job's record, also when another task moves the job
\* between states while the call runs: it neither answers NotFound nor fails.
C28_StatusOfSubmitted ==
    \A t \in Readers :
        (pc[t] = "done" /\ loc[t].op = "status") =>
            /\ ret[t].kind = "status"
            /\ ret[t].id = loc[t].id

\* C29: the worker comes to the head of its loop, where it dequeues the next
\* job, only out of the delay_between_calls pause; every end of a job (the
\* finally clause, whether the handle was completed or the job failed) is
\* followed by that pause, and the pause by the dequeue or the end of the loop.
C29_PauseBetweenJobs ==
    [][\A l \in Lanes :
         /\ (wk[l] # "get" /\ wk'[l] = "get") => wk[l] = "sleep"
         /\ (wk[l] = "finally" /\ wk'[l] # "finally") => wk'[l] = "sleep"
         /\ (wk[l] = "sleep" /\ wk'[l] # "sleep") => wk'[l] \in {"get", "stopped"}
         /\ \A i \in CallJobs : (~Done(i) /\ Done(i)') => \E k \in Lanes : wk'[k] = "sleep"]_vars

\* a job whose handle was completed (with the conversion error) is done, the
\* pause is over and the next job of the lane has been dequeued
C29_Witness ==
    /\ wk["reranker"] = "unpack"
    /\ \E i \in CallJobs : Done(i) /\ future[i] = "exception" /\ i < job["reranker"][3]

\* C30: every read or write a worker thread makes of the manager's cooldown
\* map is made while the thread holds the manager's lock.
C30_AccessUnderMutex ==
    access.op # "" => access.locked

\* the text of the error, in any letter case, names a network failure
MentionsNetworkFailure(msg) ==
    \E i \in 1..Len(msg) :
        \/ Lower(msg[i]) \in {"timeout", "unavailable", "temporarily", "temporary"}
        \/ /\ i < Len(msg)
           /\ <<Lower(msg[i]), Lower(msg[i + 1])>> \in
                  {<<"timed", "out">>, <<"connection", "reset">>, <<"connection", "aborted">>}

\* what C31 says of an error: a 5xx, a 429, or no HTTP error at all and a
\* network failure in the text
RetryableByClaim(exc) ==
    \/ exc.code \in 500..599
    \/ exc.code = 429
    \/ exc.code \notin 400..599 /\ MentionsNetworkFailure(exc.msg)

\* C31: the dispatcher classifies a failed call as retryable exactly when it
\* is a 5xx server error, a 429 error or a network-level error (timeout,
\* connection reset, "unavailable" in the text), every other 4xx error is
\* fatal whatever its text says; the except clause of the retry loop executes
\* continue after a retryable failure (the next attempt while one is left)
\* and sets the exception and breaks after a fatal one.
C31_RetryableClassification ==
    /\ applied.fn = "_is_retryable_exception" =>
           /\ applied.out[1] <=> RetryableByClaim(applied.arg)
           /\ applied.arg.code \in 400..499 /\ applied.arg.code # 429 => ~applied.out[1]
    /\ applied.fn = "except" =>
           IF RetryableByClaim(applied.arg.exc)
           THEN /\ applied.out.stmt = "continue"
                /\ applied.arg.attempt + 1 < max_attempts =>
                       applied.out.next = "attempt" /\ applied.out.future = "pending"
           ELSE applied.out.stmt = "break" /\ applied.out.future = "exception"

C31_Witness ==
    /\ applied.fn = "_is_retryable_exception"
    /\ applied.arg.cls = "ClientError"
    /\ applied.arg.code = 404
    /\ Contains(LowerMsg(applied.arg.msg), <<"unavailable">>)
    /\ ~applied.out[1]

\* C32: the nominal backoff after the failed attempt of 0-based index a is
\* baseBackoff * (a + 1) as long as that is below maxBackoff and maxBackoff
\* from then on, and the sleep lies between 0.5 and 1.5 times the backoff.
C32_LinearBackoff ==
    applied.fn = "_sleep_with_jitter" =>
        LET a == applied.arg.attempt
            b == applied.out.backoff
        IN /\ b <= max_backoff
           /\ b <= base_backoff * (a + 1)
           /\ b = max_backoff \/ b = base_backoff * (a + 1)
           /\ 500 * b <= applied.out.sleep_ms
           /\ applied.out.sleep_ms <= 1500 * b

\* the cap is in force: attempt 20 sleeps on a backoff of 10 s, not 21 s
C32_Witness ==
    /\ applied.fn = "_sleep_with_jitter"
    /\ applied.arg.attempt = 20
    /\ applied.arg.random = 999
    /\ applied.out.backoff = max_backoff
    /\ applied.out.sleep_ms = 14990

\* no row of the file holds a credential
NoCredential(file) ==
    \A i \in 1..Len(file.rows) : file.rows[i] \in {"", "  ", "None"}

\* C33: loading the pool from a credential source that yields no credential
\* once blank and whitespace-only rows are ignored fails, with the error
\* "No API keys found" when the file is otherwise well formed, and neither a
\* pool nor a dispatcher is created.
C33_EmptySourceFails ==
    applied.fn = "_load_api_keys" /\ NoCredential(applied.arg) =>
        /\ applied.out.raised # ""
        /\ apiKeys = 0
        /\ \A l \in Lanes : wk[l] = "unborn"
        /\ (/\ applied.arg.exists
            /\ applied.arg.header
            /\ \A i \in 1..Len(applied.arg.rows) : applied.arg.rows[i] \in {"", "  "})
               => applied.out.raised = "ValueError: no keys"

C33_Witness ==
    /\ applied.fn = "_load_api_keys"
    /\ applied.arg = [exists |-> TRUE, header |-> TRUE, rows |-> <<"", "  ">>]
    /\ applied.out.raised = "ValueError: no keys"
    /\ apiKeys = 0

\* C34: a call job's result handle is completed at most once: no handle is
\* set a second time (neither a result after an exception nor either of them
\* twice), and a completed handle keeps what it was completed with.
C34_CompletedOnce ==
    [][\A i \in CallJobs :
           /\ future'[i] # "invalid"
           /\ future[i] \in {"result", "exception"} => future'[i] = future[i]]_vars

\* a request that failed to convert: its handle has the exception, the
\* dispatcher is through its finally clause and at the next job
C34_Witness ==
    \E l \in Lanes, i \in CallJobs :
        /\ future[i] = "exception"
        /\ i \in taskDone
        /\ wk[l] = "convert"
        /\ job[l][3] # i

\* C35: every triple returned by claimNext names a job id that was passed to
\* submit and carries the payload given at that submit; a retry-metadata
\* record of the pending directory is never returned as if it were a job.
C35_ClaimReturnsSubmitted ==
    \A t \in Callers :
        (pc[t] = "done" /\ loc[t].op = "claim" /\ ret[t].kind = "triple") =>
            /\ ret[t].id[2] = ""
            /\ ret[t].id[1] \in hist.submitted
            /\ ret[t].data = DataFile(hist.payload[ret[t].id[1]])

\* C36: next() fails with the exhaustion error only when every credential is
\* in cooldown at that moment: with at least one credential out of cooldown
\* it returns a pair, whatever the number of credentials and of models.
C36_ExhaustedOnlyWhenAllCooling ==
    lastNext.kind = "RuntimeError" => lastNext.cooling

\* call job i waits on the queue of lane l
Queued(l, i) ==
    \E n \in 1..Len(workQueue[l]) : workQueue[l][n] # None /\ workQueue[l][n][3] = i

\* the job the worker of lane l has in hand met an error: a job tuple that
\* did not unpack, an exception out of the pool's generator, a failed
\* conversion
MetError(l) ==
    /\ job[l] # None /\ job[l] # NoJob
    /\ caught[job[l][3]] # "" \/ future[job[l][3]] = "exception"

\* C37: an error while the dispatcher handles one job does not stop its loop:
\* every job that is on the queue at that moment (put before the shutdown
\* signal) is eventually dequeued and taken through the loop to task_done().
C37_LoopSurvivesErrors ==
    \A i \in CallJobs :
        (\E l \in Lanes : MetError(l) /\ Queued(l, i)) ~> (i \in taskDone)

\* both kinds of failure behind, on one lane, and a later job of the lane done
C37_Witness ==
    \E i, k, n \in CallJobs :
        /\ i < k /\ k < n
        /\ future[i] = "exception" /\ caught[k] = "ValueError" /\ caught[n] = "StopIteration"
        /\ {i, k, n} \subseteq taskDone
        /\ wk["reranker"] = "get"

\* C38: with a single Orchestrator and no restart at most one job is in
\* PROCESSING at any time (its payload and its status record both in the
\* processing directory).
C38_OneInProcessing ==
    Cardinality({j \in Jobs : DataDirs(j) = {PROCESSING} /\ StatusDirs(j) = {PROCESSING}}) <= 1

\* job j has reached COMPLETED or FAILED
Terminal(j) == \E s \in {COMPLETED, FAILED} : InState(j, s)

\* every file of job j, directory by directory
FilesOf(j) == [d \in Dirs |-> [e \in Exts |-> fs[d][<<j, e>>]]]

\* C39: COMPLETED and FAILED are absorbing: no step of claimNext or of any
\* other call made for the jobs in hand changes a file of a job that has
\* reached COMPLETED or FAILED, and no claimNext returns such a job.
C39_TerminalAbsorbing ==
    [][\A j \in Jobs :
           Terminal(j) =>
               /\ FilesOf(j)' = FilesOf(j)
               /\ \A t \in Callers :
                      (pc'[t] = "done" /\ loc'[t].op = "claim" /\ ret'[t].kind = "triple")
                          => ret'[t].id[1] # j]_vars

\* a job is COMPLETED or FAILED and a later claimNext has returned the other
C39_Witness ==
    \E t \in Callers : \E j, k \in Jobs :
        /\ j # k /\ Terminal(j)
        /\ Returned(t, <<k, "">>)
        /\ InState(k, PROCESSING)

\* C40: at the moment getStatus returns a record for a job whose payload and
\* status record are in one state directory, the state named in the record is
\* that directory, also while a claimNext, updateStatus or requeueForRetry of
\* another task is between its file moves and its status rewrite.
C40_StatusNamesDirectory ==
    [][\A t \in Readers : \A j \in Jobs :
           (/\ pc[t] # "done" /\ pc'[t] = "done"
            /\ loc'[t].op = "status" /\ ret'[t].kind = "status" /\ ret'[t].id = <<j, "">>)
               => \A d \in Dirs :
                      (DataDirs(j)' = {d} /\ StatusDirs(j)' = {d}) => ret'[t].data.status = d]_vars

====
